---------------------------- MODULE Spec2Model ----------------------------
(***************************************************************************)
(* A model of the Radarr/Sonarr queue monitor (src/main.py, src/common.py).*)
(*                                                                         *)
(* Two specifications:                                                     *)
(*   Spec     one monitor instance: BaseMonitor.run driving                *)
(*            RadarrSonarrMonitor._run (poll, RecordScope.__init__ with    *)
(*            _sync_record, the decision loop, RecordScope.__aexit__).     *)
(*   SelSpec  search_movie_manually's candidate loop, applied to bounded   *)
(*            lists of release candidates.                                 *)
(*                                                                         *)
(* Conventions.  Python's None is the empty sequence for values that are   *)
(* tuples or objects (an Optional object is a sequence of length 0 or 1)   *)
(* and the string NoStr for Optional[str] fields.  An "HH:MM:SS" string is *)
(* the tuple <<h, m, s>>; an ISO-8601 string is <<days, h, m, s>> counted  *)
(* from the epoch.  Seconds are integers.                                  *)
(***************************************************************************)
EXTENDS Integers, Sequences, FiniteSets, TLC

None == <<>>
NoStr == "None"

(***************************************************************************)
(* Bounds of the model.                                                    *)
(***************************************************************************)
MaxIter == 3        \* iterations of BaseMonitor.run that are explored
MaxQueue == 2       \* longest queue snapshot
MaxCands == 3       \* longest list of release candidates (SelSpec)

Ids == {1, 2}       \* queue item ids

(***************************************************************************)
(* common.py: time conversions                                             *)
(***************************************************************************)
hms_to_secs(str_time) == str_time[1] * 3600 + str_time[2] * 60 + str_time[3]

sec_to_hms(seconds) ==
    LET minutes0 == seconds \div 60
        secs     == seconds % 60
        hours    == minutes0 \div 60
        minutes  == minutes0 % 60
    IN  <<hours, minutes, secs>>

iso8601_to_secs(dt) == dt[1] * 86400 + dt[2] * 3600 + dt[3] * 60 + dt[4]

(***************************************************************************)
(* MonitorConfig.  The fields the decision loop reads; hopeless_threshold  *)
(* is the fraction thr_num / thr_den.  Two configurations are explored:    *)
(* warmup_time_secs = 60 (warm-up count 60 // 30 = 2) and                  *)
(* warmup_time_secs = 0  (warm-up count 0).                                *)
(***************************************************************************)
Configs ==
    { [ run_interval_secs      |-> 30,
        max_media_size_bytes   |-> 500,
        max_download_time_secs |-> 3600,
        max_err_time_secs      |-> 30,
        reap_interval_secs     |-> 60,
        thr_num                |-> 1,
        thr_den                |-> 2,
        warmup_time_secs       |-> w ] : w \in {0, 60} }

(***************************************************************************)
(* The clock.  The first iteration runs at T0 ("02:03:04").                *)
(***************************************************************************)
T0 == hms_to_secs(<<2, 3, 4>>)

(***************************************************************************)
(* common.py: QueueResource and its predicates                             *)
(***************************************************************************)
FailedImportTitle ==
    "One or more movies expected in this release were not imported or missing"

get_title_or_id(rec) == IF rec.title # NoStr THEN rec.title ELSE ToString(rec.id)

\* Mutant of is_finished: the status is not looked at.
is_finished_any_status(rec) ==
    /\ rec.timeleft = <<0, 0, 0>>
    /\ rec.sizeleft = 0

is_finished(rec) ==
    /\ rec.timeleft = <<0, 0, 0>>
    /\ rec.sizeleft = 0
    /\ rec.status = "completed"

has_error(rec) == rec.errorMessage # NoStr

failed_to_import(rec) ==
    \E i \in 1..Len(rec.statusMessages) : rec.statusMessages[i] = FailedImportTitle

\* QueueResourcePagingResource.get_record_from_id and Record.get_record_from_id:
\* the first element with that id, or None.
RECURSIVE get_from(_, _, _)
get_from(records, record_id, i) ==
    IF i > Len(records) THEN None
    ELSE IF records[i].id = record_id THEN <<records[i]>>
    ELSE get_from(records, record_id, i + 1)

get_record_from_id(records, record_id) == get_from(records, record_id, 1)

(***************************************************************************)
(* Queue items the service may report.  Every item was added at T0 - 60    *)
(* ("1970-01-01T02:02:04Z").  Item 1 carries a title, item 2 none.  Item 1 *)
(* is seen in every shape, item 2 only downloading or not yet started.     *)
(***************************************************************************)
Added0 == <<0, 2, 2, 4>>

Shape(size, status, sizeleft, timeleft, err, msgs) ==
    [ size |-> size, status |-> status, sizeleft |-> sizeleft,
      timeleft |-> timeleft, errorMessage |-> err, statusMessages |-> msgs,
      added |-> Added0 ]

\* downloading at an acceptable pace
Downloading == Shape(100, "downloading", 5, <<0, 30, 0>>, NoStr, <<>>)

\* not started yet, oversized
NotStarted == Shape(900, "queued", 5, None, NoStr, <<>>)

Shapes ==
    { Downloading,
      NotStarted,
      \* downloading too slowly (2h > max_download_time_secs)
      Shape(100, "downloading", 5, <<2, 0, 0>>, NoStr, <<>>),
      \* erroring, and also finished, failed to import and oversized
      Shape(900, "completed", 0, <<0, 0, 0>>, "stalled", <<FailedImportTitle>>),
      \* finished, failed to import, oversized
      Shape(900, "completed", 0, <<0, 0, 0>>, NoStr, <<"warn", FailedImportTitle>>),
      \* oversized and slow
      Shape(900, "downloading", 5, <<2, 0, 0>>, NoStr, <<>>) }

ShapesOf(id) == IF id = 1 THEN Shapes ELSE {Downloading, NotStarted}

TitleOf(id) == IF id = 1 THEN "Alpha" ELSE NoStr

QueueResource(id, s) ==
    [ id |-> id, movieId |-> id + 10, title |-> TitleOf(id), size |-> s.size,
      status |-> s.status, sizeleft |-> s.sizeleft, timeleft |-> s.timeleft,
      errorMessage |-> s.errorMessage, statusMessages |-> s.statusMessages,
      added |-> s.added ]

QueueItems == UNION { { QueueResource(id, s) : s \in ShapesOf(id) } : id \in Ids }

SeqsUpTo(S, n) == UNION { [1..k -> S] : k \in 0..n }

\* Item 1 around the end of its download, with and without the message of
\* a failed import, and around max_download_time_secs (3600 s) left; no shape
\* has an error and all are within the size limit.
ImportShapes ==
    { \* finished and failed to import
      Shape(100, "completed", 0, <<0, 0, 0>>, NoStr, <<FailedImportTitle>>),
      \* failed to import, one second left
      Shape(100, "completed", 0, <<0, 0, 1>>, NoStr, <<FailedImportTitle>>),
      \* failed to import, bytes left
      Shape(100, "completed", 5, <<0, 0, 0>>, NoStr, <<FailedImportTitle>>),
      \* failed to import, status not "completed"
      Shape(100, "downloading", 0, <<0, 0, 0>>, NoStr, <<FailedImportTitle>>),
      \* finished, no failed import
      Shape(100, "completed", 0, <<0, 0, 0>>, NoStr, <<"warn">>),
      \* exactly max_download_time_secs left, and one second more
      Shape(100, "downloading", 5, <<1, 0, 0>>, NoStr, <<>>),
      Shape(100, "downloading", 5, <<1, 0, 1>>, NoStr, <<>>),
      Downloading }

ImportItems ==
    { QueueResource(1, s) : s \in ImportShapes } \cup { QueueResource(2, Downloading) }

\* A snapshot may list the same id twice: nothing in the code excludes it.
Snapshots == SeqsUpTo(QueueItems, MaxQueue)

(***************************************************************************)
(* main.py: MovieRecord, Record                                            *)
(***************************************************************************)
MovieRecord(title, id) ==
    [ title |-> title, id |-> id, error_time |-> None,
      num_timeleft_samples |-> 0, num_timeleft_samples_exceeding_max |-> 0 ]

Record(lastRun, curIter) == [ lastRun |-> lastRun, curIter |-> curIter, movies |-> <<>> ]


NoRecord == Record(<<0, 0, 0>>, 0)

(***************************************************************************)
(* main.py: RecordScope._sync_record                                       *)
(***************************************************************************)
\* Mutant of should_track: the timeleft test of line 128 left out.
should_track_always(rec) == TRUE

\* line 128: a newly seen item is tracked only once it reports a timeleft
should_track(rec) == rec.timeleft # None

\* Mutant of is_new: the record is not searched for the id.
is_new_always(movies, rec) == TRUE

\* line 127: no record of the list, as it is by now, has the item's id
is_new(movies, rec) == get_record_from_id(movies, rec.id) = None

\* lines 125-134: the loop over queue.records
RECURSIVE add_new(_, _, _)
add_new(movies, records, i) ==
    IF i > Len(records) THEN movies
    ELSE LET rec == records[i]
         IN  IF is_new(movies, rec) /\ should_track(rec)
             THEN add_new(Append(movies, MovieRecord(get_title_or_id(rec), rec.id)),
                          records, i + 1)
             ELSE add_new(movies, records, i + 1)

\* list.remove(x): drops the first element equal to x
RECURSIVE list_remove(_, _)
list_remove(lst, x) ==
    IF lst = <<>> THEN <<>>
    ELSE IF Head(lst) = x THEN Tail(lst)
    ELSE <<Head(lst)>> \o list_remove(Tail(lst), x)

\* lines 136-138: `for movie in self.record.movies` removes from the list it
\* iterates.  Python's list iterator keeps an index: after a removal at index
\* i the next element visited is the one that was at i + 2.
RECURSIVE remove_stale(_, _, _)
remove_stale(movies, records, i) ==
    IF i > Len(movies) THEN movies
    ELSE IF get_record_from_id(records, movies[i].id) = None
         THEN remove_stale(list_remove(movies, movies[i]), records, i + 1)
         ELSE remove_stale(movies, records, i + 1)

sync_record(movies, records) == remove_stale(add_new(movies, records, 1), records, 1)

(***************************************************************************)
(* main.py: the remediation requests collected by RecordScope.add_task.    *)
(* `branch` names the place of _run that collected the task; `state` is    *)
(* "pending" until asyncio.gather has run it.                              *)
(***************************************************************************)
remove_media_from_queue(movie_id, blocklist, redownload, branch) ==
    [ kind |-> "remove_media_from_queue", id |-> movie_id, blocklist |-> blocklist,
      redownload |-> redownload, branch |-> branch, state |-> "pending" ]

reap_media(movie_id) ==
    [ kind |-> "reap_media", id |-> movie_id, blocklist |-> FALSE,
      redownload |-> FALSE, branch |-> "reap", state |-> "pending" ]

Outcome(movie, tasks, fault) == [ movie |-> movie, tasks |-> tasks, fault |-> fault ]

(***************************************************************************)
(* main.py: RadarrSonarrMonitor._run, the body of the loop for one         *)
(* (movie, queue_rec) pair with queue_rec present, at clock time t.        *)
(***************************************************************************)
\* Mutant of reap_due: >= for > in line 385.
reap_due_ge(queue_rec, t, cfg) ==
    t - iso8601_to_secs(queue_rec.added) >= cfg.reap_interval_secs

\* lines 383-386
reap_due(queue_rec, t, cfg) ==
    t - iso8601_to_secs(queue_rec.added) > cfg.reap_interval_secs

\* lines 382-390
ReapBranch(queue_rec, t, cfg) ==
    IF reap_due(queue_rec, t, cfg) THEN <<reap_media(queue_rec.id)>> ELSE <<>>

\* Mutant of err_timed_out: >= for > in line 313.
err_timed_out_ge(movie, t, cfg) ==
    t - hms_to_secs(movie.error_time) >= cfg.max_err_time_secs

\* lines 311-314
err_timed_out(movie, t, cfg) ==
    t - hms_to_secs(movie.error_time) > cfg.max_err_time_secs

\* Mutant of ErrorBranch: the `continue` of line 325 left out, so that an
\* erroring item falls through to the reap check.
ErrorBranch_no_continue(movie, queue_rec, t, cfg) ==
    IF movie.error_time # None
    THEN Outcome(movie,
                 (IF err_timed_out(movie, t, cfg)
                  THEN <<remove_media_from_queue(queue_rec.id, TRUE, TRUE, "error")>>
                  ELSE <<>>) \o ReapBranch(queue_rec, t, cfg),
                 FALSE)
    ELSE Outcome([movie EXCEPT !.error_time = sec_to_hms(t)],
                 ReapBranch(queue_rec, t, cfg), FALSE)

\* lines 308-325
ErrorBranch(movie, queue_rec, t, cfg) ==
    IF movie.error_time # None
    THEN Outcome(movie,
                 IF err_timed_out(movie, t, cfg)
                 THEN <<remove_media_from_queue(queue_rec.id, TRUE, TRUE, "error")>>
                 ELSE <<>>,
                 FALSE)
    ELSE Outcome([movie EXCEPT !.error_time = sec_to_hms(t)], <<>>, FALSE)

\* lines 359-362
exceeds_max(queue_rec, cfg) ==
    hms_to_secs(queue_rec.timeleft) > cfg.max_download_time_secs

\* Mutant of sample: an exceeding sample is counted in both counters.
sample_in_total_too(movie, queue_rec, cfg) ==
    IF exceeds_max(queue_rec, cfg)
    THEN [movie EXCEPT !.num_timeleft_samples_exceeding_max = @ + 1,
                       !.num_timeleft_samples = @ + 1]
    ELSE [movie EXCEPT !.num_timeleft_samples = @ + 1]

sample(movie, queue_rec, cfg) ==
    IF exceeds_max(queue_rec, cfg)
    THEN [movie EXCEPT !.num_timeleft_samples_exceeding_max = @ + 1]
    ELSE [movie EXCEPT !.num_timeleft_samples = @ + 1]

\* line 366: warmup_time_secs // run_interval_secs
warmup_count(cfg) == cfg.warmup_time_secs \div cfg.run_interval_secs

\* lines 364-367
warmed_up(movie, cfg) == movie.num_timeleft_samples >= warmup_count(cfg)

\* Mutant of is_hopeless: a ratio equal to the threshold counts too.
is_hopeless_ge(movie, cfg) ==
    movie.num_timeleft_samples_exceeding_max * cfg.thr_den
        >= cfg.thr_num * movie.num_timeleft_samples

\* lines 368-372: exceeding / samples > hopeless_threshold, for samples # 0
is_hopeless(movie, cfg) ==
    movie.num_timeleft_samples_exceeding_max * cfg.thr_den
        > cfg.thr_num * movie.num_timeleft_samples

\* lines 358-390.  The division of line 370 raises ZeroDivisionError when the
\* sample counter is 0: the loop is left with the counters already updated.
SampleBranch(movie, queue_rec, t, cfg) ==
    LET m == sample(movie, queue_rec, cfg)
    IN  IF warmed_up(m, cfg) /\ m.num_timeleft_samples = 0
        THEN Outcome(m, <<>>, TRUE)
        ELSE Outcome(m,
                     (IF warmed_up(m, cfg) /\ is_hopeless(m, cfg)
                      THEN <<remove_media_from_queue(queue_rec.id, TRUE, TRUE, "hopeless")>>
                      ELSE <<>>)
                         \o ReapBranch(queue_rec, t, cfg),
                     FALSE)

\* Mutant of Skip: the record without a match is taken for a dead download.
Skip_removes(movie) ==
    Outcome([movie EXCEPT !.error_time = None],
            <<remove_media_from_queue(movie.id, TRUE, FALSE, "error")>>,
            FALSE)

\* lines 303-307: no queue item for the record, log the error and continue
Skip(movie) == Outcome(movie, <<>>, FALSE)

\* lines 308-390
Evaluate(movie, queue_rec, t, cfg) ==
    IF has_error(queue_rec)
    THEN ErrorBranch(movie, queue_rec, t, cfg)
    ELSE IF is_finished(queue_rec) /\ failed_to_import(queue_rec)
    THEN Outcome(movie,
                 <<remove_media_from_queue(queue_rec.id, FALSE, FALSE, "import")>>,
                 FALSE)
    ELSE IF queue_rec.timeleft = None
    THEN Outcome(movie, <<>>, FALSE)
    ELSE IF queue_rec.size > cfg.max_media_size_bytes
    THEN Outcome(movie,
                 <<remove_media_from_queue(queue_rec.id, TRUE, TRUE, "oversize")>>,
                 FALSE)
    ELSE SampleBranch(movie, queue_rec, t, cfg)

(***************************************************************************)
(* asyncio.gather over the collected coroutines.  None of them suspends    *)
(* (BaseMonitor._send calls httpx synchronously), so the event loop runs   *)
(* them to completion one after the other, in the order collected, and the *)
(* awaiting __aexit__ resumes only after the last one has run.             *)
(***************************************************************************)
Ended(task) == task.state # "pending"

\* Mutant of gather_returns: the awaiting __aexit__ resumes as soon as one
\* task has raised, the others still pending.
gather_returns_on_raise(ts) ==
    \/ \A i \in 1..Len(ts) : Ended(ts[i])
    \/ \E i \in 1..Len(ts) : ts[i].state = "raised"

\* line 167: `await asyncio.gather(*self.tasks)` returns or raises
gather_returns(ts) == \A i \in 1..Len(ts) : Ended(ts[i])

gather_raises(ts) == \E i \in 1..Len(ts) : ts[i].state = "raised"

\* _send turns every transport failure into None, which the callers ignore:
\* a removal always returns ("done").  Only search_movie_manually's
\* resp.json() / from_dict (lines 259-260) can raise.
Outcomes(task) ==
    IF task.kind = "reap_media" THEN {"done", "raised"} ELSE {"done"}

(***************************************************************************)
(* common.py: ReleaseResource, Language; main.py: search_movie_manually    *)
(* A rejection string is the sequence of its words; Optional[int] seeders  *)
(* is a sequence of length 0 or 1.                                         *)
(***************************************************************************)
Language(id, name) == [ id |-> id, name |-> name ]

English == Language(1, "English")
French == Language(2, "French")
German == Language(4, "German")
Unknown == Language(0, "Unknown")

ReleaseResource(guid, indexerId, seeders, resolution, languages, rejections) ==
    [ guid |-> guid, indexerId |-> indexerId, seeders |-> seeders,
      resolution |-> resolution, languages |-> languages, rejections |-> rejections ]

Releases ==
    { ReleaseResource("A", 1, <<5>>, 1080, <<English>>, <<>>),
      ReleaseResource("B", 2, <<10>>, 720, <<English>>, <<>>),
      \* same key as B
      ReleaseResource("C", 3, <<10>>, 720, <<German, Unknown>>, <<>>),
      \* no language of the original item
      ReleaseResource("D", 1, <<20>>, 1080, <<German>>, <<>>),
      \* no seeders
      ReleaseResource("E", 2, <<0>>, 2160, <<English>>, <<>>),
      ReleaseResource("G", 3, None, 2160, <<English>>, <<>>),
      \* no release identifier
      ReleaseResource(NoStr, 1, <<20>>, 2160, <<English>>, <<>>),
      \* rejected with a marker
      ReleaseResource("H", 2, <<20>>, 2160, <<English>>,
                      <<<<"Release", "is", "blocklisted">>>>),
      ReleaseResource("I", 3, <<20>>, 2160, <<Unknown>>,
                      <<<<"Quality", "not", "wanted">>, <<"Unknown Movie">>>>),
      \* rejected for another reason, only French
      ReleaseResource("J", 1, <<5>>, 720, <<French>>,
                      <<<<"Quality", "not", "wanted">>>>) }

ReleaseLists == SeqsUpTo(Releases, MaxCands)

OriginalLanguages == { <<English>>, <<French, English>> }

\* `"blocklisted" in rej or "Unknown Movie" in rej` (line 266)
Contains(rej, marker) == \E i \in 1..Len(rej) : rej[i] = marker

is_rejected(res) ==
    \E i \in 1..Len(res.rejections) :
        Contains(res.rejections[i], "blocklisted")
            \/ Contains(res.rejections[i], "Unknown Movie")

\* line 261: `res.guid is None or not res.seeders`
is_unusable(res) ==
    res.guid = NoStr \/ res.seeders = None \/ res.seeders[1] = 0

\* Mutant of has_valid_lang: any language at all is accepted.
has_valid_lang_any(res, languages) == res.languages # <<>>

\* lines 270-275
has_valid_lang(res, languages) ==
    \E i \in 1..Len(res.languages) :
        \/ res.languages[i].id = 0
        \/ \E j \in 1..Len(languages) : languages[j] = res.languages[i]

\* Mutant of comp: <= for < in line 254.
comp_le(r1, r2) ==
    \/ r1.seeders[1] < r2.seeders[1]
    \/ r1.seeders[1] = r2.seeders[1] /\ r1.resolution <= r2.resolution

\* lines 253-257: tuple comparison (seeders, resolution) < (seeders, resolution)
comp(r1, r2) ==
    \/ r1.seeders[1] < r2.seeders[1]
    \/ r1.seeders[1] = r2.seeders[1] /\ r1.resolution < r2.resolution

\* lines 260-285: the loop body for one release; best is None or <<release>>
consider(best, res, languages) ==
    IF is_unusable(res) THEN best
    ELSE IF is_rejected(res) THEN best
    ELSE IF ~has_valid_lang(res, languages) THEN best
    ELSE IF best = None \/ comp(best[1], res) THEN <<res>>
    ELSE best

\* lines 287-291: the request posted for the best candidate, or None
search(best) ==
    IF best # None /\ best[1].guid # NoStr /\ best[1].guid # ""
    THEN <<[ guid |-> best[1].guid, indexerId |-> best[1].indexerId ]>>
    ELSE None

(***************************************************************************)
(* State                                                                   *)
(***************************************************************************)
VARIABLES
    pc,              \* where BaseMonitor.run is: "poll", "decide", "aexit", "sleep",
                     \* "done" (left by an exception), "stopped" (CancelledError caught)
    now,             \* datetime.now().timestamp()
    cur_iter,        \* i of BaseMonitor.run
    config,          \* self.config
    file,            \* the record file: None, or <<the Record written last>>
    torn,            \* the last write_text was cut short: the file holds a proper
                     \* prefix (possibly empty) of the document of that Record
    record,          \* RecordScope.record
    queue,           \* RecordScope.queue.records
    resp_ok,         \* whether _list_media's request succeeded
    pos,             \* index of the decision loop in record.movies
    tasks,           \* RecordScope.tasks
    exc,             \* an exception raised inside the `async with` body
    cancel,          \* Task.cancel() was called on the task of BaseMonitor.run
    not_found,       \* the log: ids of the records that line 304 reported as not found
                     \* in the queue, in this iteration and in the one before
    recovered,       \* history: ids of the tracked records with an error_time whose
                     \* item a later pass found in the queue without an error
    sel_pc,          \* search_movie_manually: "off", "fetch", "loop", "post", "done"
    releases,        \* resp.json() of GET release
    languages,       \* queue_rec.languages
    sel_pos,         \* index of the loop over the releases
    best_candidate,  \* None or <<release>>
    request,         \* None or <<the body of POST release>>
    results,         \* top-level _run: `res`, what each run() ended with, "running" before
    sup_pc,          \* top-level _run: "off", "await", "raised", "returned", "cancelled"
    raised           \* the monitors whose exception the top-level _run raises

monitor_vars ==
    <<pc, now, cur_iter, config, file, torn, record, queue, resp_ok, pos, tasks, exc,
      cancel, not_found, recovered>>
sel_vars == <<sel_pc, releases, languages, sel_pos, best_candidate, request>>
sup_vars == <<results, sup_pc, raised>>
vars == <<monitor_vars, sel_vars, sup_vars>>

MonitorIdle ==
    /\ pc = "poll"
    /\ now = T0
    /\ cur_iter = 0
    /\ file = None
    /\ torn = FALSE
    /\ record = NoRecord
    /\ queue = <<>>
    /\ resp_ok = TRUE
    /\ pos = 1
    /\ tasks = <<>>
    /\ exc = FALSE
    /\ cancel = FALSE
    /\ not_found = [last |-> {}, this |-> {}]
    /\ recovered = {}

SelIdle ==
    /\ sel_pc = "off"
    /\ releases = <<>>
    /\ languages = <<>>
    /\ sel_pos = 1
    /\ best_candidate = None
    /\ request = None

SupIdle ==
    /\ results = <<>>
    /\ sup_pc = "off"
    /\ raised = <<>>

\* A monitor constructed from one of the configurations, no record file yet.
Init ==
    /\ config \in Configs
    /\ MonitorIdle
    /\ SelIdle
    /\ SupIdle

(***************************************************************************)
(* main.py: RecordScope.__init__ (lines 140-156)                           *)
(***************************************************************************)
\* lines 147-153: the record read from the file, or a fresh one
load(f, t, i) == IF f # None THEN f[1] ELSE Record(sec_to_hms(t), i)

\* _run lines 299-301: _list_media, then RecordScope(...) loads and syncs.
\* With nothing tracked the `for` loop ends at once and __aexit__ is entered.
\* json.loads of line 149 raises on a document cut short: the exception
\* leaves __init__, _run and run, no scope is entered.
Begin(q, ok) ==
    LET loaded == load(file, now, cur_iter)
        synced == [loaded EXCEPT !.movies = sync_record(loaded.movies, q)]
    IN  /\ queue' = q
        /\ resp_ok' = ok
        /\ record' = IF torn THEN record ELSE synced
        /\ tasks' = <<>>
        /\ pos' = 1
        /\ exc' = FALSE
        /\ pc' = IF torn THEN "done"
                 ELSE IF synced.movies = <<>> THEN "aexit" ELSE "decide"
        /\ not_found' = [last |-> not_found.this, this |-> {}]
        /\ recovered' = IF torn THEN recovered
                        ELSE { id \in recovered :
                                 get_record_from_id(synced.movies, id) # None }
        /\ UNCHANGED <<now, cur_iter, config, file, torn, cancel, sel_vars, sup_vars>>

\* _list_media, lines 177-184: a failed request yields an empty snapshot
PollFrom(snapshots) ==
    /\ pc = "poll"
    /\ cur_iter < MaxIter
    /\ \/ \E q \in snapshots : Begin(q, TRUE)
       \/ Begin(<<>>, FALSE)

Poll == PollFrom(Snapshots)

(***************************************************************************)
(* main.py: _run lines 302-390, one turn of `for movie, queue_rec in       *)
(* record_scope`.  A fault leaves the loop; __aexit__ still runs.          *)
(***************************************************************************)
Decide ==
    /\ pc = "decide"
    /\ pos <= Len(record.movies)
    /\ LET movie == record.movies[pos]
           queue_rec == get_record_from_id(queue, movie.id)
           last == pos + 1 > Len(record.movies)
           r == IF queue_rec = None THEN Skip(movie)
                ELSE Evaluate(movie, queue_rec[1], now, config)
       IN  /\ record' = [record EXCEPT !.movies[pos] = r.movie]
           /\ tasks' = tasks \o r.tasks
           /\ exc' = r.fault
           /\ pos' = IF r.fault THEN pos ELSE pos + 1
           /\ pc' = IF r.fault \/ last THEN "aexit" ELSE "decide"
           /\ not_found' = IF queue_rec = None
                            THEN [not_found EXCEPT !.this = @ \cup {movie.id}]
                            ELSE not_found
           /\ recovered' = IF /\ queue_rec # None
                              /\ movie.error_time # None
                              /\ ~has_error(queue_rec[1])
                           THEN recovered \cup {movie.id}
                           ELSE recovered
    /\ UNCHANGED <<now, cur_iter, config, file, torn, queue, resp_ok, cancel, sel_vars,
                   sup_vars>>

(***************************************************************************)
(* main.py: RecordScope.__aexit__ (lines 166-172)                          *)
(***************************************************************************)
FirstPending(ts) ==
    CHOOSE i \in 1..Len(ts) :
        /\ ts[i].state = "pending"
        /\ \A j \in 1..(i - 1) : Ended(ts[j])

\* the event loop runs the next collected coroutine to its end; a task
\* cancelled before its first step never runs
RunTask ==
    /\ pc = "aexit"
    /\ ~cancel
    /\ \E i \in 1..Len(tasks) : tasks[i].state = "pending"
    /\ LET i == FirstPending(tasks)
       IN  \E o \in Outcomes(tasks[i]) : tasks' = [tasks EXCEPT ![i].state = o]
    /\ UNCHANGED <<pc, now, cur_iter, config, file, torn, record, queue, resp_ok, pos,
                   exc, cancel, not_found, recovered, sel_vars, sup_vars>>

\* lines 168-172, reached when gather returned without raising
written(rec, t, i) == [rec EXCEPT !.lastRun = sec_to_hms(t), !.curIter = i]

\* gather is over.  If a task raised, __aexit__ raises before the write;
\* otherwise the record is written, and an exception of the body, which
\* __aexit__ does not suppress, goes on to BaseMonitor.run and ends it.
\* gather() of no task is a finished future: awaiting it does not suspend,
\* so a pending cancellation is not delivered there.
Persist ==
    /\ pc = "aexit"
    /\ gather_returns(tasks)
    /\ cancel => tasks = <<>>
    /\ IF gather_raises(tasks)
       THEN /\ pc' = "done"
            /\ UNCHANGED <<file, record>>
       ELSE /\ record' = written(record, now, cur_iter)
            /\ file' = <<written(record, now, cur_iter)>>
            /\ pc' = IF exc THEN "done" ELSE "sleep"
    /\ UNCHANGED <<now, cur_iter, config, torn, queue, resp_ok, pos, tasks, exc, cancel,
                   not_found, recovered, sel_vars, sup_vars>>

\* BaseMonitor.run lines 66-67: sleep, i += 1.  The scope and the snapshot
\* of the finished iteration are gone.
Sleep ==
    /\ pc = "sleep"
    /\ ~cancel
    /\ now' = now + config.run_interval_secs
    /\ cur_iter' = cur_iter + 1
    /\ pc' = "poll"
    /\ record' = NoRecord
    /\ queue' = <<>>
    /\ resp_ok' = TRUE
    /\ pos' = 1
    /\ tasks' = <<>>
    /\ UNCHANGED <<config, file, torn, exc, cancel, not_found, recovered, sel_vars, sup_vars>>

Next == Poll \/ Decide \/ RunTask \/ Persist \/ Sleep

Spec == Init /\ [][Next]_vars

(***************************************************************************)
(* The monitor again, on queues whose item 1 is about to finish.           *)
(***************************************************************************)
ImportSnapshots == SeqsUpTo(ImportItems, MaxQueue)

PollImport == PollFrom(ImportSnapshots)

ImportNext == PollImport \/ Decide \/ RunTask \/ Persist \/ Sleep

ImportSpec == Init /\ [][ImportNext]_vars

(***************************************************************************)
(* The monitor again, on a queue of three downloading items that leave it  *)
(* and come back: each snapshot lists some of them, in the queue's order.  *)
(***************************************************************************)
ManyIds == {1, 2, 3}

FullQueue == [ id \in 1..Cardinality(ManyIds) |-> QueueResource(id, Downloading) ]

StaleSnapshots ==
    { SelectSeq(FullQueue, LAMBDA r : r.id \in S) : S \in SUBSET ManyIds }

PollStale == PollFrom(StaleSnapshots)

StaleNext == PollStale \/ Decide \/ RunTask \/ Persist \/ Sleep

StaleSpec == Init /\ [][StaleNext]_vars

(***************************************************************************)
(* main.py: cancellation.  _run (lines 400-410) awaits the gather of the   *)
(* monitors' run(); cancelling it calls Task.cancel() on each of them.     *)
(* A task that is suspended gets CancelledError at its await; one that is  *)
(* running gets it at its next suspension.  BaseMonitor.run suspends at    *)
(* line 66 (asyncio.sleep) and, through __aexit__, at line 167 (gather of  *)
(* at least one task).                                                     *)
(***************************************************************************)
Cancel ==
    /\ ~cancel
    /\ pc \in {"poll", "decide", "aexit", "sleep"}
    /\ cancel' = TRUE
    /\ UNCHANGED <<pc, now, cur_iter, config, file, torn, record, queue, resp_ok, pos,
                   tasks, exc, not_found, recovered, sel_vars, sup_vars>>

\* Cancelling the gather of line 167 cancels every task that has not ended
cancel_tasks(ts) ==
    [ i \in 1..Len(ts) |->
        IF ts[i].state = "pending" THEN [ts[i] EXCEPT !.state = "cancelled"] ELSE ts[i] ]

\* run lines 68-69: CancelledError raised at line 66, or at line 167 before
\* the write of lines 170-172, is caught and "Monitor stopped" is logged.
Stop ==
    /\ cancel
    /\ \/ pc = "sleep"
       \/ pc = "aexit" /\ tasks # <<>>
    /\ tasks' = cancel_tasks(tasks)
    /\ pc' = "stopped"
    /\ UNCHANGED <<now, cur_iter, config, file, torn, record, queue, resp_ok, pos, exc,
                   cancel, not_found, recovered, sel_vars, sup_vars>>

CancelNext == Next \/ Cancel \/ Stop

CancelSpec == Init /\ [][CancelNext]_vars

(***************************************************************************)
(* main.py: lines 170-172, Path.write_text opens the record file with mode *)
(* "w", which empties it, writes the document and closes the file.  The    *)
(* process is killed in between, and started again later.                  *)
(***************************************************************************)
CrashInWrite ==
    /\ pc = "aexit"
    /\ gather_returns(tasks)
    /\ ~gather_raises(tasks)
    /\ cancel => tasks = <<>>
    /\ ~torn
    /\ file' = <<written(record, now, cur_iter)>>
    /\ torn' = TRUE
    /\ pc' = "crashed"
    /\ UNCHANGED <<now, cur_iter, config, record, queue, resp_ok, pos, tasks, exc, cancel,
                   not_found, recovered, sel_vars, sup_vars>>

\* a new process: __main__ lines 394-410, BaseMonitor.run line 63
Restart ==
    /\ pc = "crashed"
    /\ pc' = "poll"
    /\ cur_iter' = 0
    /\ record' = NoRecord
    /\ queue' = <<>>
    /\ resp_ok' = TRUE
    /\ pos' = 1
    /\ tasks' = <<>>
    /\ exc' = FALSE
    /\ cancel' = FALSE
    /\ not_found' = [last |-> {}, this |-> {}]
    /\ UNCHANGED <<now, config, file, torn, recovered, sel_vars, sup_vars>>

CrashNext == Next \/ CrashInWrite \/ Restart

CrashSpec == Init /\ [][CrashNext]_vars

(***************************************************************************)
(* main.py: the top-level _run (lines 400-410) over several monitors, each *)
(* reduced to the way its run() ends: it returns None after a cancellation *)
(* (lines 68-69), or an exception of an iteration leaves it (line 65).     *)
(***************************************************************************)
NumMonitors == 3

\* what can leave an iteration: the division of line 370, resp.json() and
\* from_dict of lines 148-153, 184 and 259-260
Faults == {"ZeroDivisionError", "JSONDecodeError", "DaciteError"}

\* line 406-408: `for exc in res: if exc: raise exc`
RECURSIVE first_raised(_, _)
first_raised(rs, i) ==
    IF i > Len(rs) THEN <<>>
    ELSE IF rs[i] # NoStr THEN <<i>>
    ELSE first_raised(rs, i + 1)

SupInit ==
    /\ config = CHOOSE c \in Configs : c.warmup_time_secs = 60
    /\ MonitorIdle
    /\ SelIdle
    /\ results = [m \in 1..NumMonitors |-> "running"]
    /\ sup_pc = "await"
    /\ raised = <<>>

\* an exception leaves monitor m's run(); with return_exceptions=True the
\* gather of line 402 stores it and goes on waiting for the others
SupFail ==
    /\ sup_pc = "await"
    /\ \E m \in 1..NumMonitors, f \in Faults :
          /\ results[m] = "running"
          /\ results' = [results EXCEPT ![m] = f]
    /\ UNCHANGED <<monitor_vars, sel_vars, sup_pc, raised>>

\* the gather is cancelled: every monitor still running catches
\* CancelledError and returns None, and `await tasks` raises CancelledError
SupCancel ==
    /\ sup_pc = "await"
    /\ \E m \in 1..NumMonitors : results[m] = "running"
    /\ results' = [m \in 1..NumMonitors |-> IF results[m] = "running" THEN NoStr ELSE results[m]]
    /\ sup_pc' = "cancelled"
    /\ UNCHANGED <<monitor_vars, sel_vars, raised>>

\* lines 405-408: every monitor has ended, the gather returns the list
SupReport ==
    /\ sup_pc = "await"
    /\ \A m \in 1..NumMonitors : results[m] # "running"
    /\ raised' = first_raised(results, 1)
    /\ sup_pc' = IF first_raised(results, 1) = <<>> THEN "returned" ELSE "raised"
    /\ UNCHANGED <<monitor_vars, sel_vars, results>>

SupNext == SupFail \/ SupCancel \/ SupReport

SupSpec == SupInit /\ [][SupNext]_vars

(***************************************************************************)
(* main.py: search_movie_manually (lines 225-295) on its own: the releases *)
(* the service answers with and the languages of the queue item are drawn  *)
(* from bounded sets.                                                      *)
(***************************************************************************)
SelInit ==
    /\ config = CHOOSE c \in Configs : c.warmup_time_secs = 60
    /\ MonitorIdle
    /\ sel_pc = "fetch"
    /\ releases \in ReleaseLists
    /\ languages \in OriginalLanguages
    /\ sel_pos = 1
    /\ best_candidate = None
    /\ request = None
    /\ SupIdle

\* lines 241-247: GET release; a failed request returns at once
SelFetch ==
    /\ sel_pc = "fetch"
    /\ \/ sel_pc' = "loop"
       \/ sel_pc' = "failed"
    /\ UNCHANGED <<monitor_vars, sup_vars, releases, languages, sel_pos, best_candidate, request>>

\* lines 259-285: one turn of `for res_json in resp.json()`
SelStep ==
    /\ sel_pc = "loop"
    /\ sel_pos <= Len(releases)
    /\ best_candidate' = consider(best_candidate, releases[sel_pos], languages)
    /\ sel_pos' = sel_pos + 1
    /\ UNCHANGED <<monitor_vars, sup_vars, sel_pc, releases, languages, request>>

\* lines 287-295: POST release for the best candidate, or the warning
SelPost ==
    /\ sel_pc = "loop"
    /\ sel_pos > Len(releases)
    /\ request' = search(best_candidate)
    /\ sel_pc' = "done"
    /\ UNCHANGED <<monitor_vars, sup_vars, releases, languages, sel_pos, best_candidate>>

SelNext == SelFetch \/ SelStep \/ SelPost

SelSpec == SelInit /\ [][SelNext]_vars

(***************************************************************************)
(*                              PROPERTIES                                 *)
(***************************************************************************)

\* The reconciler has just run: RecordScope.__init__ is over and the decision
\* loop has not looked at any record yet.
Reconciled ==
    \/ pc = "decide" /\ pos = 1
    \/ pc = "aexit" /\ record.movies = <<>>

\* The tracked records the reconciler started from: the file is rewritten
\* only at the end of the pass.
Prior == load(file, now, cur_iter).movies

IsTracked(movies, id) == get_record_from_id(movies, id) # None

InQueue(id) == get_record_from_id(queue, id) # None

---------------------------------------------------------------------------
\* C1: the reconciler is idempotent: run again on the same snapshot, it
\* leaves the tracked records it has just produced as they are.
C1_Idempotent ==
    Reconciled => sync_record(record.movies, queue) = record.movies

\* C2: after one run of the reconciler no tracked record is left whose id
\* is absent from the snapshot.
C2_NoStaleRecordLeft ==
    Reconciled =>
        \A i \in 1..Len(record.movies) : InQueue(record.movies[i].id)

\* Some entry of the snapshot with this id reports a time-remaining.
ReportsTimeleft(id) ==
    \E i \in 1..Len(queue) : queue[i].id = id /\ queue[i].timeleft # None

\* The title of the first such entry, its id when it has no title.
FirstSeenTitle(id) ==
    LET i == CHOOSE k \in 1..Len(queue) :
                 /\ queue[k].id = id /\ queue[k].timeleft # None
                 /\ \A j \in 1..(k - 1) : ~(queue[j].id = id /\ queue[j].timeleft # None)
    IN  IF queue[i].title = NoStr THEN ToString(id) ELSE queue[i].title

\* C3: an id that was not tracked becomes tracked by the reconciler if and
\* only if the snapshot reports a time-remaining for it, and the new record
\* has the item's title (its id when it has none), both counters zero and no
\* error-start time.
C3_TracksIffTimeleft ==
    Reconciled =>
        \A id \in Ids :
            ~IsTracked(Prior, id) =>
                /\ IsTracked(record.movies, id) <=> ReportsTimeleft(id)
                /\ ReportsTimeleft(id) =>
                       get_record_from_id(record.movies, id)[1] =
                           [ title |-> FirstSeenTitle(id), id |-> id,
                             error_time |-> None,
                             num_timeleft_samples |-> 0,
                             num_timeleft_samples_exceeding_max |-> 0 ]

\* Witness of C3: in one snapshot an untracked item with a time-remaining has
\* been inserted and an untracked item without one has not.
C3_Witness ==
    /\ Reconciled
    /\ \E a, b \in Ids :
          /\ ~IsTracked(Prior, a) /\ ReportsTimeleft(a) /\ IsTracked(record.movies, a)
          /\ ~IsTracked(Prior, b) /\ InQueue(b) /\ ~ReportsTimeleft(b)
          /\ ~IsTracked(record.movies, b)

---------------------------------------------------------------------------
(***************************************************************************)
(* The decision pass.  While the pass runs (and until __aexit__ writes)    *)
(* the file still holds the records as they were before it.                *)
(***************************************************************************)
InPass == pc \in {"decide", "aexit"}

\* The loop body has run to its end for the record at index i.
Evaluated(i) == InPass /\ i \in 1..Len(record.movies) /\ i < pos

TasksOf(id) == SelectSeq(tasks, LAMBDA t : t.id = id)

ItemOf(id) == get_record_from_id(queue, id)[1]

PriorMovie(id) ==
    IF IsTracked(Prior, id) THEN get_record_from_id(Prior, id)[1]
    ELSE MovieRecord(get_title_or_id(ItemOf(id)), id)

IsRemoval(t, blocklist, redownload) ==
    /\ t.kind = "remove_media_from_queue"
    /\ t.blocklist = blocklist
    /\ t.redownload = redownload

IsReap(t) == t.kind = "reap_media"

Some(ts, P(_)) == \E k \in 1..Len(ts) : P(ts[k])

\* No earlier branch stops the item: it is sampled.
ReachesSampling(q) ==
    /\ q.errorMessage = NoStr
    /\ ~(is_finished(q) /\ failed_to_import(q))
    /\ q.timeleft # None
    /\ q.size <= config.max_media_size_bytes

Age(q) == now - iso8601_to_secs(q.added)

\* C4: per item and pass the branches are taken in the fixed order and are
\* exclusive: an item without a match gets nothing; an erroring item gets at
\* most the error remediation; otherwise a finished item that failed to import
\* gets exactly the plain removal; otherwise an item without time-remaining
\* gets nothing; otherwise an oversized item gets exactly one blocklist +
\* redownload; only an item that reaches sampling can get the hopelessness
\* remediation, the reap, or both (in that order).  A record the loop has not
\* finished has no request.
C4_BranchesExclusive ==
    InPass =>
        \A i \in 1..Len(record.movies) :
            LET id == record.movies[i].id
                ts == TasksOf(id)
            IN  IF ~Evaluated(i) \/ ~InQueue(id) THEN ts = <<>>
                ELSE LET q == ItemOf(id)
                     IN  /\ Len(ts) <= 2
                         /\ Len(ts) = 2 =>
                                ts[1].branch = "hopeless" /\ ts[2].branch = "reap"
                         /\ CASE q.errorMessage # NoStr ->
                                    /\ Len(ts) <= 1
                                    /\ \A k \in 1..Len(ts) :
                                           ts[k].branch = "error" /\ IsRemoval(ts[k], TRUE, TRUE)
                              [] q.errorMessage = NoStr
                                 /\ is_finished(q) /\ failed_to_import(q) ->
                                    /\ Len(ts) = 1
                                    /\ ts[1].branch = "import" /\ IsRemoval(ts[1], FALSE, FALSE)
                              [] q.errorMessage = NoStr
                                 /\ ~(is_finished(q) /\ failed_to_import(q))
                                 /\ q.timeleft = None ->
                                    ts = <<>>
                              [] q.errorMessage = NoStr
                                 /\ ~(is_finished(q) /\ failed_to_import(q))
                                 /\ q.timeleft # None
                                 /\ q.size > config.max_media_size_bytes ->
                                    /\ Len(ts) = 1
                                    /\ ts[1].branch = "oversize" /\ IsRemoval(ts[1], TRUE, TRUE)
                              [] ReachesSampling(q) ->
                                    \A k \in 1..Len(ts) :
                                        \/ ts[k].branch = "hopeless" /\ IsRemoval(ts[k], TRUE, TRUE)
                                        \/ ts[k].branch = "reap" /\ IsReap(ts[k])

\* Witness of C4: in one pass an item got both the hopelessness remediation
\* and the reap.
C4_Witness ==
    \E i \in 1..Len(record.movies) :
        /\ Evaluated(i)
        /\ InQueue(record.movies[i].id)
        /\ Len(TasksOf(record.movies[i].id)) = 2

\* Another case of C4: an item that errors for too long, is finished, failed
\* to import, is oversized and is old enough to reap got the error remediation
\* and nothing else.
C4_ErrorShortCircuits ==
    \E i \in 1..Len(record.movies) :
        /\ Evaluated(i)
        /\ InQueue(record.movies[i].id)
        /\ LET q == ItemOf(record.movies[i].id)
           IN  /\ q.errorMessage # NoStr
               /\ is_finished(q) /\ failed_to_import(q)
               /\ q.size > config.max_media_size_bytes
               /\ Age(q) > config.reap_interval_secs
        /\ Len(TasksOf(record.movies[i].id)) = 1

---------------------------------------------------------------------------
\* C5: for an evaluated item that has an error: if its record had no
\* error-start time, the pass sets it to the time of the pass and issues
\* nothing; if it had one and more than max_err_time_secs have passed since,
\* exactly one removal with blocklist and redownload is issued; if it had one
\* and no more than max_err_time_secs have passed, nothing is issued.  The
\* error-start time, once set, is left as it is.
C5_ErrorTime ==
    \A i \in 1..Len(record.movies) :
        (Evaluated(i) /\ InQueue(record.movies[i].id)
             /\ ItemOf(record.movies[i].id).errorMessage # NoStr) =>
            LET m == record.movies[i]
                before == PriorMovie(m.id)
                ts == TasksOf(m.id)
            IN  IF before.error_time = None
                THEN /\ m.error_time # None
                     /\ hms_to_secs(m.error_time) = now
                     /\ ts = <<>>
                ELSE /\ m.error_time = before.error_time
                     /\ IF now - hms_to_secs(before.error_time)
                               > config.max_err_time_secs
                        THEN Len(ts) = 1 /\ IsRemoval(ts[1], TRUE, TRUE)
                        ELSE ts = <<>>

\* Witness of C5: an item whose error started more than max_err_time_secs
\* ago has been evaluated and its one remediation collected.
C5_Witness ==
    \E i \in 1..Len(record.movies) :
        /\ Evaluated(i)
        /\ InQueue(record.movies[i].id)
        /\ ItemOf(record.movies[i].id).errorMessage # NoStr
        /\ PriorMovie(record.movies[i].id).error_time # None
        /\ now - hms_to_secs(PriorMovie(record.movies[i].id).error_time)
               > config.max_err_time_secs
        /\ Len(TasksOf(record.movies[i].id)) = 1

\* C6: with warmup_time_secs = 60, run_interval_secs = 30 and
\* hopeless_threshold = 0.5, an item sampled (exceeding, exceeding) gets the
\* blocklist + redownload in the pass of its second sample, and an item
\* sampled (exceeding, not exceeding) gets none.
C6_HopelessAfterWarmup ==
    (config.warmup_time_secs = 60 /\ config.run_interval_secs = 30
         /\ config.thr_num = 1 /\ config.thr_den = 2) =>
        \A i \in 1..Len(record.movies) :
            (Evaluated(i) /\ InQueue(record.movies[i].id)
                 /\ ReachesSampling(ItemOf(record.movies[i].id))) =>
                LET m == record.movies[i]
                    q == ItemOf(m.id)
                    before == PriorMovie(m.id)
                    firstExceeded ==
                        /\ before.num_timeleft_samples_exceeding_max = 1
                        /\ before.num_timeleft_samples = 0
                    exceeds == hms_to_secs(q.timeleft) > config.max_download_time_secs
                    remediated == Some(TasksOf(m.id), LAMBDA t : IsRemoval(t, TRUE, TRUE))
                IN  /\ (firstExceeded /\ exceeds) => remediated
                    /\ (firstExceeded /\ ~exceeds) => ~remediated

---------------------------------------------------------------------------
(***************************************************************************)
(* The candidate selector (SelSpec).                                       *)
(***************************************************************************)
\* A release survives the filters of section 4.4: identifier present,
\* seeders present and not zero, no blocklist or "Unknown Movie" rejection,
\* and a language that is id 0 or one of the item's.
Survives(res) ==
    /\ res.guid # NoStr
    /\ res.seeders # None
    /\ res.seeders[1] # 0
    /\ \A i \in 1..Len(res.rejections) :
           \A k \in 1..Len(res.rejections[i]) :
               res.rejections[i][k] \notin {"blocklisted", "Unknown Movie"}
    /\ \E i \in 1..Len(res.languages) :
           \/ res.languages[i].id = 0
           \/ \E j \in 1..Len(languages) : languages[j] = res.languages[i]

Survivors == { i \in 1..Len(releases) : Survives(releases[i]) }

\* (seeders, resolution) of a is strictly greater than that of b
KeyGreater(a, b) ==
    \/ a.seeders[1] > b.seeders[1]
    \/ a.seeders[1] = b.seeders[1] /\ a.resolution > b.resolution

RequestFor(res) == <<[ guid |-> res.guid, indexerId |-> res.indexerId ]>>

C9_RequestsOnlySurvivors ==
    /\ request # None =>
           /\ \E i \in Survivors : request = RequestFor(releases[i])
           /\ \A i \in 1..Len(releases) :
                  releases[i].guid = request[1].guid => Survives(releases[i])
    /\ (sel_pc \in {"done", "failed"} /\ Survivors = {}) => request = None

\* Witness of C9: a survivor was requested although the list holds a release
\* with more seeders and a higher resolution that fails a filter.
C9_Witness ==
    /\ sel_pc = "done"
    /\ \E k \in Survivors :
          /\ request = RequestFor(releases[k])
          /\ \E i \in 1..Len(releases) :
                /\ ~Survives(releases[i])
                /\ releases[i].seeders # None
                /\ releases[i].seeders[1] > releases[k].seeders[1]
                /\ releases[i].resolution > releases[k].resolution

\* Another case of C9: the search is over for a non-empty list none of whose
\* releases survives.
C9_NoSurvivor ==
    /\ sel_pc = "done"
    /\ Len(releases) = MaxCands
    /\ Survivors = {}

---------------------------------------------------------------------------
\* C10: __aexit__ is left, with or without the write, only when every
\* collected task has ended, and the file changes only then: a task that
\* raised does not keep the tasks collected after it from running.
C10_TasksEndBeforePersist ==
    [][ (file' # file \/ (pc = "aexit" /\ pc' # "aexit")) =>
            /\ tasks' = tasks
            /\ \A i \in 1..Len(tasks) : Ended(tasks[i]) ]_vars

\* Witness of C10: the iteration is over, a collected task raised and a task
\* collected after it has run all the same.
C10_Witness ==
    /\ pc = "done"
    /\ \E i, j \in 1..Len(tasks) :
          i < j /\ tasks[i].state = "raised" /\ tasks[j].state = "done"

\* Another case of C10: the record was written after two or more tasks ended.
C10_WrittenAfterTasks ==
    /\ pc = "sleep"
    /\ Len(tasks) >= 2
    /\ file = <<record>>

---------------------------------------------------------------------------
\* C11: on cancellation the instance stops only after every collected
\* remediation action has run to its end and the record has been written.
C11_StopsAfterPersist ==
    pc = "stopped" =>
        /\ \A i \in 1..Len(tasks) : tasks[i].state \in {"done", "raised"}
        /\ file = <<written(record, now, cur_iter)>>

---------------------------------------------------------------------------
\* C12: when the supervisor raises, every monitor that ended with a fault
\* has its fault among those raised.
C12_ReportsEveryFault ==
    sup_pc = "raised" =>
        \A m \in 1..NumMonitors :
            results[m] \in Faults => \E k \in 1..Len(raised) : raised[k] = m

\* A part of C12 that holds: a fault of one monitor leaves the others as
\* they are, and the supervisor raises only when all of them have ended.
C12_SiblingsKeepRunning ==
    [][ /\ \A m, n \in 1..NumMonitors :
            (m # n /\ results[m] = "running" /\ results'[m] \in Faults)
                => results'[n] = results[n]
        /\ sup_pc' = "raised" => \A m \in 1..NumMonitors : results[m] # "running" ]_vars

---------------------------------------------------------------------------
\* C13: in an iteration whose queue fetch failed nothing is collected and
\* every record tracked before the iteration is still tracked, unchanged.
C13_FailedFetchIsNoOp ==
    (InPass /\ ~resp_ok) =>
        /\ tasks = <<>>
        /\ \A i \in 1..Len(Prior) :
              \E j \in 1..Len(record.movies) : record.movies[j] = Prior[i]

\* The part of C13 that holds: nothing is collected after a failed fetch,
\* and the records that stay tracked are unchanged.
C13_FailedFetchIssuesNothing ==
    (InPass /\ ~resp_ok) =>
        /\ tasks = <<>>
        /\ \A j \in 1..Len(record.movies) :
              \E i \in 1..Len(Prior) : record.movies[j] = Prior[i]

---------------------------------------------------------------------------
\* C14: whatever happened during the write of the record file, the file
\* read at the start of an iteration is a complete document.
C14_WriteAllOrNothing ==
    (pc = "poll" /\ file # None) => ~torn

---------------------------------------------------------------------------
\* C15: however the iteration ends, by the sleep or by an exception, the
\* record with the mutations of the pass is in the file.
C15_WrittenOnEveryExit ==
    pc \in {"sleep", "done"} => file = <<written(record, now, cur_iter)>>

\* The part of C15 that holds: an exception of the decision pass itself
\* does not keep the record from being written, unless a task raised too.
C15_WrittenAfterBodyFault ==
    (pc = "done" /\ exc /\ ~gather_raises(tasks)) =>
        file = <<written(record, now, cur_iter)>>

---------------------------------------------------------------------------
\* The three conditions of a finished item, as the claim words them.
AllThreeFinished(q) ==
    q.timeleft = <<0, 0, 0>> /\ q.sizeleft = 0 /\ q.status = "completed"

SameCounters(a, b) ==
    /\ a.num_timeleft_samples = b.num_timeleft_samples
    /\ a.num_timeleft_samples_exceeding_max = b.num_timeleft_samples_exceeding_max

\* C16: for an item without error that the pass has evaluated: if it is
\* finished (all three conditions) and failed to import, exactly one removal
\* with blocklist off and redownload off is collected for it and neither
\* sample counter changes; if one of the three conditions differs, no such
\* removal is collected.
C16_FinishedFailedImport ==
    InPass =>
        \A i \in 1..Len(record.movies) :
            LET id == record.movies[i].id
                ts == TasksOf(id)
            IN  (Evaluated(i) /\ InQueue(id) /\ ItemOf(id).errorMessage = NoStr) =>
                    IF AllThreeFinished(ItemOf(id)) /\ failed_to_import(ItemOf(id))
                    THEN /\ Len(ts) = 1
                         /\ IsRemoval(ts[1], FALSE, FALSE)
                         /\ SameCounters(record.movies[i], PriorMovie(id))
                    ELSE ~Some(ts, LAMBDA t : IsRemoval(t, FALSE, FALSE))

\* Witness of C16: a finished item that failed to import got its removal in
\* a pass after one in which it was sampled.
C16_Witness ==
    \E i \in 1..Len(record.movies) :
        /\ Evaluated(i)
        /\ InQueue(record.movies[i].id)
        /\ ItemOf(record.movies[i].id).errorMessage = NoStr
        /\ AllThreeFinished(ItemOf(record.movies[i].id))
        /\ failed_to_import(ItemOf(record.movies[i].id))
        /\ record.movies[i].num_timeleft_samples > 0
        /\ Len(TasksOf(record.movies[i].id)) = 1

\* Another case of C16: an item that failed to import and has everything
\* of a finished one but the status was sampled instead.
C16_NearlyFinished ==
    \E i \in 1..Len(record.movies) :
        /\ Evaluated(i)
        /\ InQueue(record.movies[i].id)
        /\ failed_to_import(ItemOf(record.movies[i].id))
        /\ ItemOf(record.movies[i].id).timeleft = <<0, 0, 0>>
        /\ ItemOf(record.movies[i].id).sizeleft = 0
        /\ ItemOf(record.movies[i].id).status # "completed"
        /\ record.movies[i].num_timeleft_samples =
               PriorMovie(record.movies[i].id).num_timeleft_samples + 1

---------------------------------------------------------------------------
\* The loop body has counted this pass's sample of the record at index i:
\* it ran to its end, or it was left by the division of line 370.
Sampled(i) ==
    /\ InPass
    /\ i \in 1..Len(record.movies)
    /\ i < pos \/ (exc /\ i = pos)
    /\ InQueue(record.movies[i].id)
    /\ ReachesSampling(ItemOf(record.movies[i].id))

WarmupCount == config.warmup_time_secs \div config.run_interval_secs

\* exceeding / total is a number greater than hopeless_threshold
RatioAbove(m) ==
    /\ m.num_timeleft_samples > 0
    /\ m.num_timeleft_samples_exceeding_max * config.thr_den
           > config.thr_num * m.num_timeleft_samples

RatioEqual(m) ==
    /\ m.num_timeleft_samples > 0
    /\ m.num_timeleft_samples_exceeding_max * config.thr_den
           = config.thr_num * m.num_timeleft_samples

HopelessIssued(id) == Some(TasksOf(id), LAMBDA t : t.branch = "hopeless")

C17_Triggered ==
    \E i \in 1..Len(record.movies) :
        Sampled(i) /\ RatioAbove(record.movies[i]) /\ HopelessIssued(record.movies[i].id)

C17_BeforeWarmup ==
    \E i \in 1..Len(record.movies) :
        /\ Sampled(i)
        /\ RatioAbove(record.movies[i])
        /\ record.movies[i].num_timeleft_samples < WarmupCount
        /\ ~HopelessIssued(record.movies[i].id)

---------------------------------------------------------------------------
\* C18: against the counters read from the file before the pass, a record
\* whose sample the pass has counted has exactly one counter one higher, the
\* exceeding counter if the time-remaining is greater than
\* max_download_time_secs and the total counter otherwise; every other
\* tracked record has both counters as they were.
C18_OneCounterPerSample ==
    InPass =>
        \A i \in 1..Len(record.movies) :
            LET m == record.movies[i]
                before == PriorMovie(m.id)
            IN  IF Sampled(i)
                THEN IF hms_to_secs(ItemOf(m.id).timeleft) > config.max_download_time_secs
                     THEN /\ m.num_timeleft_samples_exceeding_max =
                                 before.num_timeleft_samples_exceeding_max + 1
                          /\ m.num_timeleft_samples = before.num_timeleft_samples
                     ELSE /\ m.num_timeleft_samples = before.num_timeleft_samples + 1
                          /\ m.num_timeleft_samples_exceeding_max =
                                 before.num_timeleft_samples_exceeding_max
                ELSE SameCounters(m, before)

\* Witness of C18: a sample of exactly max_download_time_secs was counted in
\* the total counter of a record that had an exceeding sample before.
C18_Witness ==
    \E i \in 1..Len(record.movies) :
        /\ Sampled(i)
        /\ hms_to_secs(ItemOf(record.movies[i].id).timeleft) = config.max_download_time_secs
        /\ PriorMovie(record.movies[i].id).num_timeleft_samples_exceeding_max > 0
        /\ record.movies[i].num_timeleft_samples =
               PriorMovie(record.movies[i].id).num_timeleft_samples + 1

\* Another case of C18: an evaluated item that is not sampled (it is
\* finished and failed to import) kept counters that were not zero.
C18_Unchanged ==
    \E i \in 1..Len(record.movies) :
        /\ Evaluated(i)
        /\ ~Sampled(i)
        /\ InQueue(record.movies[i].id)
        /\ record.movies[i].num_timeleft_samples > 0

\* A consequence of C18: from one written file to the next, the counters of
\* an id tracked in both do not decrease.
C18_NeverDecrease ==
    [][ (file # None /\ file' # file) =>
            \A id \in Ids :
                (IsTracked(file[1].movies, id) /\ IsTracked(file'[1].movies, id)) =>
                    LET a == get_record_from_id(file[1].movies, id)[1]
                        b == get_record_from_id(file'[1].movies, id)[1]
                    IN  /\ b.num_timeleft_samples >= a.num_timeleft_samples
                        /\ b.num_timeleft_samples_exceeding_max >=
                               a.num_timeleft_samples_exceeding_max ]_vars

---------------------------------------------------------------------------
\* The loop has walked the record at index i and found no queue item for it.
Anomaly(i) == Evaluated(i) /\ ~InQueue(record.movies[i].id)

\* C19: a tracked record the loop has walked without finding a queue item
\* for it is tracked as it was read from the file, error-start time and
\* counters included, and no request is collected for its id.
C19_AnomalySkipped ==
    \A i \in 1..Len(record.movies) :
        Anomaly(i) =>
            /\ IsTracked(Prior, record.movies[i].id)
            /\ record.movies[i] = get_record_from_id(Prior, record.movies[i].id)[1]
            /\ TasksOf(record.movies[i].id) = <<>>

\* Witness of C19: a record with an error-start time and a counted sample
\* was skipped, and the pass is at its end.
C19_Witness ==
    /\ pc = "aexit"
    /\ \E i \in 1..Len(record.movies) :
          /\ Anomaly(i)
          /\ record.movies[i].error_time # None
          /\ record.movies[i].num_timeleft_samples > 0

\* C19, the persisted record: the file a pass writes holds every record the
\* pass skipped for want of a queue item, as it was in the file before.
C19_AnomalyPersisted ==
    [][ (InPass /\ file' # file) =>
            \A i \in 1..Len(record.movies) :
                Anomaly(i) =>
                    \E j \in 1..Len(file'[1].movies) :
                        file'[1].movies[j] =
                            get_record_from_id(Prior, record.movies[i].id)[1] ]_vars

---------------------------------------------------------------------------
\* C20: a record that was reported as not found in the iteration before,
\* and whose item is not in this iteration's snapshot either, is not in the
\* file this iteration has written.
C20_GoneAfterNextIteration ==
    pc = "sleep" =>
        \A id \in not_found.last :
            ~InQueue(id) => ~IsTracked(file[1].movies, id)

---------------------------------------------------------------------------
ErrorRemediated(id) == Some(TasksOf(id), LAMBDA t : t.branch = "error")

\* C21: the error remediation is collected only for an item that every pass
\* since its error-start time was set has found with an error.
C21_ErrorWasContinuous ==
    \A i \in 1..Len(record.movies) :
        (Evaluated(i) /\ ErrorRemediated(record.movies[i].id)) =>
            record.movies[i].id \notin recovered

---------------------------------------------------------------------------
\* C22: no decision pass is left by the division of line 370.
C22_NoDivisionByZero ==
    ~exc

---------------------------------------------------------------------------
UniqueIds(movies) ==
    \A i, j \in 1..Len(movies) : movies[i].id = movies[j].id => i = j

\* C23: no two tracked records have the same id, in the record of the pass
\* and in the file.
C23_UniqueIds ==
    /\ UniqueIds(record.movies)
    /\ file # None => UniqueIds(file[1].movies)

\* Witness of C23: the snapshot lists twice, both times with a
\* time-remaining, an id that was not tracked, and the reconciler has run.
C23_Witness ==
    /\ Reconciled
    /\ Len(queue) = 2
    /\ queue[1].id = queue[2].id
    /\ queue[1].timeleft # None
    /\ queue[2].timeleft # None
    /\ ~IsTracked(Prior, queue[1].id)
    /\ IsTracked(record.movies, queue[1].id)

=============================================================================
